---- MODULE Spec2Model ----
(***************************************************************************)
(* INGRES groundwater chatbot: the offline build-or-load of the embedding  *)
(* index (build_embeddings.py), the query module that loads the persisted  *)
(* artifacts (test_search.py), the staged resolver search_ingres, and the  *)
(* year extractor extract_years (app.py).                                  *)
(*                                                                         *)
(* Strings are sequences of one-character strings, so that lower(),        *)
(* title(), strip(), slicing, substring containment and the regular        *)
(* expressions are computed character by character.  An optional value is  *)
(* a sequence of length 0 (None / absent) or 1.                            *)
(*                                                                         *)
(* Two library calls are not computed but drawn: the best choice and score *)
(* of rapidfuzz process.extractOne(scorer=fuzz.WRatio), constrained by     *)
(* the documented properties of WRatio (ExtractOneOutcomes), and the       *)
(* nearest-neighbour order faiss returns for a query (Rankings).           *)
(***************************************************************************)
EXTENDS Integers, Sequences, FiniteSets, TLC

VARIABLES
    prog,       \* which module the running process executes: "none", "build", "query"
    pc,         \* the process's position in its module-level code
    df,         \* the corpus held in memory (rows of the CSV as read)
    index,      \* the in-memory vector index (optional)
    META,       \* the in-memory metadata store (optional)
    idxFile,    \* data/ingres_index.faiss (optional)
    metaFile,   \* data/ingres_meta.json (optional)
    pass,       \* number of encode-and-build passes started so far
    call,       \* the arguments of the search_ingres call being served (optional)
    result,     \* what that call produced (optional)
    yquery,     \* the argument of extract_years
    yresult     \* what extract_years returned (optional)

vars == <<prog, pc, df, index, META, idxFile, metaFile, pass, call, result, yquery, yresult>>

None == <<>>
Some(x) == <<x>>
IsNone(o) == Len(o) = 0
IsSome(o) == Len(o) = 1
Get(o) == o[1]

Range(s) == {s[i] : i \in 1..Len(s)}

(***************************************************************************)
(* Bounds of the model.                                                    *)
(***************************************************************************)
MaxPass == 2
MaxPieces == 5

(***************************************************************************)
(* Characters and the string methods the code uses.                        *)
(***************************************************************************)
UpperChars == <<"A","B","C","G","N","P","T">>
LowerChars == <<"a","b","c","g","n","p","t">>
OnlyLowerChars == {"d","e","h","i","l","m","o","r","s","u","v","w","y"}
DigitChars == <<"0","1","2","3","4","5","6","7","8","9">>

IsUpper(c) == c \in Range(UpperChars)
IsLower(c) == c \in Range(LowerChars) \cup OnlyLowerChars
IsCased(c) == IsUpper(c) \/ IsLower(c)
IsDigit(c) == c \in Range(DigitChars)
IsSpace(c) == c = " "
\* \w of the re module: letters, digits and the underscore
IsWordChar(c) == IsCased(c) \/ IsDigit(c) \/ c = "_"

IndexIn(seq, c) == CHOOSE i \in 1..Len(seq) : seq[i] = c

LowerChar(c) == IF IsUpper(c) THEN LowerChars[IndexIn(UpperChars, c)] ELSE c
UpperChar(c) == IF c \in Range(LowerChars) THEN UpperChars[IndexIn(LowerChars, c)] ELSE c

\* str.lower() of a sequence of characters
CharsLower(cs) == [i \in 1..Len(cs) |-> LowerChar(cs[i])]

\* str.title(): a cased character is upper-cased when it follows an uncased
\* character (or starts the string) and lower-cased otherwise
CharsTitle(cs) ==
    [i \in 1..Len(cs) |->
        IF i = 1 \/ ~IsCased(cs[i-1]) THEN UpperChar(cs[i]) ELSE LowerChar(cs[i])]

\* str.strip(): leading and trailing whitespace removed
CharsStrip(cs) ==
    LET keep == {i \in 1..Len(cs) : ~IsSpace(cs[i])}
    IN  IF keep = {} THEN <<>>
        ELSE LET lo == CHOOSE i \in keep : \A j \in keep : i <= j
                 hi == CHOOSE i \in keep : \A j \in keep : j <= i
             IN  SubSeq(cs, lo, hi)

\* sub in cs
IsSubstring(sub, cs) ==
    \E i \in 0..(Len(cs) - Len(sub)) : SubSeq(cs, i + 1, i + Len(sub)) = sub

(***************************************************************************)
(* The strings that occur as names, queries and their lower(), title() and *)
(* strip() forms, each with its characters.  The string methods are        *)
(* computed on the characters.                                             *)
(***************************************************************************)
KnownStrings ==
    {"Bihar",
     "bihar",
     "Goa",
     "goa",
     "Gaya",
     "gaya",
     "Patna",
     "patna",
     "PATNA",
     "North Goa",
     "north goa",
     "2022-2023",
     "2023-2024",
     " Bihar ",
     " bihar ",
     "Compare Gaya and Patna",
     "compare gaya and patna",
     "please compare groundwater in gaya and patna",
     "please compare the groundwater levels in gaya",
     "compare gaya and patna in bihar",
     "water",
     "compare",
     ""}

\* the characters of a string
Chars(s) ==
    CASE s = "Bihar" -> <<"B","i","h","a","r">>
      [] s = "bihar" -> <<"b","i","h","a","r">>
      [] s = "Goa" -> <<"G","o","a">>
      [] s = "goa" -> <<"g","o","a">>
      [] s = "Gaya" -> <<"G","a","y","a">>
      [] s = "gaya" -> <<"g","a","y","a">>
      [] s = "Patna" -> <<"P","a","t","n","a">>
      [] s = "patna" -> <<"p","a","t","n","a">>
      [] s = "PATNA" -> <<"P","A","T","N","A">>
      [] s = "North Goa" -> <<"N","o","r","t","h"," ","G","o","a">>
      [] s = "north goa" -> <<"n","o","r","t","h"," ","g","o","a">>
      [] s = "2022-2023" -> <<"2","0","2","2","-","2","0","2","3">>
      [] s = "2023-2024" -> <<"2","0","2","3","-","2","0","2","4">>
      [] s = " Bihar " -> <<" ","B","i","h","a","r"," ">>
      [] s = " bihar " -> <<" ","b","i","h","a","r"," ">>
      [] s = "Compare Gaya and Patna" -> <<"C","o","m","p","a","r","e"," ","G","a","y","a"," ","a","n","d"," ","P","a","t","n","a">>
      [] s = "compare gaya and patna" -> <<"c","o","m","p","a","r","e"," ","g","a","y","a"," ","a","n","d"," ","p","a","t","n","a">>
      [] s = "please compare groundwater in gaya and patna" -> <<"p","l","e","a","s","e"," ","c","o","m","p","a","r","e"," ","g","r","o","u","n","d","w","a","t","e","r"," ","i","n"," ","g","a","y","a"," ","a","n","d"," ","p","a","t","n","a">>
      [] s = "please compare the groundwater levels in gaya" -> <<"p","l","e","a","s","e"," ","c","o","m","p","a","r","e"," ","t","h","e"," ","g","r","o","u","n","d","w","a","t","e","r"," ","l","e","v","e","l","s"," ","i","n"," ","g","a","y","a">>
      [] s = "compare gaya and patna in bihar" -> <<"c","o","m","p","a","r","e"," ","g","a","y","a"," ","a","n","d"," ","p","a","t","n","a"," ","i","n"," ","b","i","h","a","r">>
      [] s = "water" -> <<"w","a","t","e","r">>
      [] s = "compare" -> <<"c","o","m","p","a","r","e">>
      [] s = "" -> <<>>

FromChars(cs) == CHOOSE s \in KnownStrings : Chars(s) = cs

Lower(s) == FromChars(CharsLower(Chars(s)))
Title(s) == FromChars(CharsTitle(Chars(s)))
Strip(s) == FromChars(CharsStrip(Chars(s)))
Contains(sub, s) == IsSubstring(Chars(sub), Chars(s))
Length(s) == Len(Chars(s))

DigitVal(c) == IndexIn(DigitChars, c) - 1

\* int(s) for a string of decimal digits
RECURSIVE ParseInt(_)
ParseInt(s) ==
    IF Len(s) = 0 THEN 0
    ELSE 10 * ParseInt(SubSeq(s, 1, Len(s) - 1)) + DigitVal(s[Len(s)])

\* str(n) for n >= 0
RECURSIVE Str(_)
Str(n) == IF n < 10 THEN <<DigitChars[n + 1]>> ELSE Str(n \div 10) \o <<DigitChars[(n % 10) + 1]>>

\* pandas unique(): the distinct values in order of first appearance
RECURSIVE Unique(_)
Unique(s) ==
    IF Len(s) = 0 THEN <<>>
    ELSE LET front == Unique(SubSeq(s, 1, Len(s) - 1))
         IN  IF s[Len(s)] \in Range(front) THEN front ELSE Append(front, s[Len(s)])

Lower_all(names) == [i \in 1..Len(names) |-> Lower(names[i])]

Column(rows, col) == [i \in 1..Len(rows) |-> rows[i][col]]

(***************************************************************************)
(* The corpus file: what pd.read_csv may find at CSV_PATH.                 *)
(***************************************************************************)
Row(s, d, y) == [state |-> s, district |-> d, assessment_year |-> y]

CorpusA ==
    <<Row("Bihar", "Gaya", "2022-2023"), Row("Bihar", "Gaya", "2023-2024"),
      Row("Bihar", "Patna", "2023-2024")>>
\* the corpus after an edit: a row added, one removed, one name re-cased
CorpusB ==
    <<Row("Goa", "North Goa", "2022-2023"), Row("Bihar", "PATNA", "2023-2024"),
      Row("Bihar", "Gaya", "2022-2023")>>

Corpora == {CorpusA, CorpusB}

(***************************************************************************)
(* The persisted artifacts and their in-memory forms.                      *)
(*   index  : [pass, vecs]  one vector per encoded sentence, in row order  *)
(*   META   : [pass, map]   map from key to the row's snapshot             *)
(* A dict key is [kind, text]: the int 0 and the str "0" are different     *)
(* keys with the same decimal text.  "pass" records which encode-and-build *)
(* pass produced the artifact.                                             *)
(***************************************************************************)
TOP_K == 5

IntKey(i) == [kind |-> "int", text |-> Str(i)]
StrKey(s) == [kind |-> "str", text |-> s]

\* line 35: district + ", " + state + ", " + assessment_year
Sentence(row) == <<row.district, ", ", row.state, ", ", row.assessment_year>>

\* lines 36-41: encode the corpus and add every vector to a flat L2 index
BuildIndex(frame, p) == [pass |-> p, vecs |-> [i \in 1..Len(frame) |-> Sentence(frame[i])]]

Snapshot(row) ==
    [district |-> row.district, state |-> row.state, assessment_year |-> row.assessment_year]

\* lines 46-56: META[i] = {...} for i, row in df.iterrows(); i is the int row label
BuildMeta(frame, p) ==
    [pass |-> p,
     map |-> [k \in {IntKey(i) : i \in 0..(Len(frame) - 1)} |->
                 Snapshot(frame[ParseInt(k.text) + 1])]]

\* json.dump: an object's keys are written as strings, an int key as its str()
JsonDump(meta) ==
    [pass |-> meta.pass,
     complete |-> TRUE,
     map |-> [k \in {StrKey(j.text) : j \in DOMAIN meta.map} |->
                 LET src == CHOOSE j \in DOMAIN meta.map : j.text = k.text
                 IN  meta.map[src]]]

\* json.load of a completely written file: every key is a str
JsonLoad(file) == [pass |-> file.pass, map |-> file.map]

\* mutant of WriteIndex: an index file that is already there is left as it is
KeepExistingIndex(built, old) == IF IsSome(old) THEN Get(old) ELSE built

\* line 42: faiss.write_index overwrites the file with the index just built
WriteIndex(built, old) == built

\* mutant of CacheHit: the files count only while they match the corpus read
CacheHitIfFresh ==
    /\ IsSome(idxFile) /\ IsSome(metaFile)
    /\ Get(idxFile).vecs = BuildIndex(df, Get(idxFile).pass).vecs

\* line 26: os.path.exists(INDEX_PATH) and os.path.exists(META_PATH)
CacheHit == IsSome(idxFile) /\ IsSome(metaFile)


(***************************************************************************)
(* The library calls whose values are drawn.                               *)
(***************************************************************************)
ScoreValues == {0, 60, 70, 71, 90, 100}

LongerLen(q, c) == IF Length(q) > Length(c) THEN Length(q) ELSE Length(c)
ShorterLen(q, c) == IF Length(q) > Length(c) THEN Length(c) ELSE Length(q)

\* What is known of fuzz.WRatio(q, c) without computing it.  It is 0 when
\* either string is empty and 100 when the strings are equal.  When one
\* string is a contiguous part of the other and the longer is less than 8
\* times the shorter, it is above 80: ratio is 2*shorter/(shorter+longer) > 80
\* for a length ratio below 1.5, and from 1.5 on partial_ratio is 100, scaled
\* by 0.9.
WRatioFloor(q, c) ==
    IF Length(q) = 0 \/ Length(c) = 0 THEN 0
    ELSE IF q = c THEN 100
    ELSE IF /\ Contains(c, q) \/ Contains(q, c)
            /\ LongerLen(q, c) < 8 * ShorterLen(q, c) THEN 80
    ELSE 0

\* Unequal strings score at most 95 (token ratios are scaled by 0.95); when
\* the longer is more than 8 times the shorter the partial ratios are scaled
\* by 0.6 and ratio is below 23, so the score is at most 60.
WRatioCeiling(q, c) ==
    IF Length(q) = 0 \/ Length(c) = 0 THEN 0
    ELSE IF q = c THEN 100
    ELSE IF LongerLen(q, c) > 8 * ShorterLen(q, c) THEN 60
    ELSE 95

\* process.extractOne(q, choices, scorer=fuzz.WRatio): None for no choices,
\* else the first choice of the highest score, with that score: no choice
\* can score above it, and no earlier choice can score as much
ExtractOneOutcomes(q, choices) ==
    IF Len(choices) = 0 THEN {None}
    ELSE {Some([choice |-> choices[p[1]], score |-> p[2]]) :
            p \in {<<i, s>> \in (1..Len(choices)) \X ScoreValues :
                /\ WRatioFloor(q, choices[i]) <= s
                /\ s <= WRatioCeiling(q, choices[i])
                /\ \A j \in 1..Len(choices) : WRatioFloor(q, choices[j]) <= s
                /\ \A j \in 1..(i - 1) : WRatioFloor(q, choices[j]) < s}}

\* index.search(emb, top_k): the row ids of the top_k nearest vectors by
\* ascending distance, the slots past ntotal filled with -1
Rankings(ntotal) ==
    LET k == IF ntotal < TOP_K THEN ntotal ELSE TOP_K
    IN  {[slot \in 1..TOP_K |-> IF slot <= k THEN f[slot] ELSE -1] :
            f \in {g \in [1..k -> 0..(ntotal - 1)] :
                     \A a, b \in 1..k : a # b => g[a] # g[b]}}

\* mutant of semantic_search: the test for the "no neighbour" slot is inverted,
\* so every real hit is skipped
semantic_search_skips_hits(meta, ranking) == [error |-> FALSE, hits |-> <<>>]

\* mutant of semantic_search: the hits come back farthest first
semantic_search_farthest_first(meta, ranking) ==
    LET IsNeighbour(idx) == idx # -1
        found == SelectSeq(ranking, IsNeighbour)
    IN  IF \E j \in 1..Len(found) : StrKey(Str(found[j])) \notin DOMAIN meta.map
        THEN [error |-> TRUE, hits |-> <<>>]
        ELSE [error |-> FALSE,
              hits |-> [j \in 1..Len(found) |->
                          LET m == meta.map[StrKey(Str(found[Len(found) + 1 - j]))]
                          IN  [district |-> m.district, state |-> m.state,
                               year |-> m.assessment_year, row |-> found[Len(found) + 1 - j]]]]

(***************************************************************************)
(* semantic_search (build_embeddings.py 65-85, test_search.py 53-72).      *)
(* hits: the results list; error: META[str(idx)] raised KeyError.          *)
(***************************************************************************)
MetaKey(idx) == StrKey(Str(idx))

semantic_search(meta, ranking) ==
    LET IsNeighbour(idx) == idx # -1
        found == SelectSeq(ranking, IsNeighbour)
    IN  IF \E j \in 1..Len(found) : MetaKey(found[j]) \notin DOMAIN meta.map
        THEN [error |-> TRUE, hits |-> <<>>]
        ELSE [error |-> FALSE,
              hits |-> [j \in 1..Len(found) |->
                          LET m == meta.map[MetaKey(found[j])]
                          IN  [district |-> m.district, state |-> m.state,
                               year |-> m.assessment_year, row |-> found[j]]]]

(***************************************************************************)
(* search_ingres (build_embeddings.py 87-133, test_search.py 77-129).      *)
(***************************************************************************)
Threshold == 70

\* mutant of Accepted: the match is accepted only above 90
AcceptedAbove90(match) == IsSome(match) /\ Get(match).score > 90

Accepted(match) == IsSome(match) /\ Get(match).score > Threshold

\* requested_years if requested_years else []
YearFilterOf(requested_years) ==
    IF IsSome(requested_years) /\ Len(Get(requested_years)) > 0
    THEN Get(requested_years) ELSE <<>>

\* assessment_year.str[:4].astype(int)
LeadingYear(row) ==
    LET text == Chars(row.assessment_year)
    IN  ParseInt(SubSeq(text, 1, IF Len(text) < 4 THEN Len(text) ELSE 4))

\* mutant of ApplyYearFilter: the year is read from the end of the label
ApplyYearFilterOnEndYear(context_df, year_filter) ==
    LET EndYear(row) ==
            LET text == Chars(row.assessment_year)
            IN  ParseInt(SubSeq(text, Len(text) - 3, Len(text)))
        InYears(row) == EndYear(row) \in Range(year_filter)
    IN  IF Len(year_filter) > 0 THEN SelectSeq(context_df, InYears) ELSE context_df

\* if year_filter: context_df = context_df[... .isin(year_filter)]
ApplyYearFilter(context_df, year_filter) ==
    LET InYears(row) == LeadingYear(row) \in Range(year_filter)
    IN  IF Len(year_filter) > 0 THEN SelectSeq(context_df, InYears) ELSE context_df

StateChoices(frame) == Lower_all(Unique(Column(frame, "state")))
DistrictChoices(frame) == Lower_all(Unique(Column(frame, "district")))

CompareWord == "compare"
ComparedLabel == "Compared Districts"

\* lines 110-113: the distinct districts whose lower-cased name is in the query
MatchedDists(frame, query_lower) ==
    LET InQuery(d) == Contains(Lower(d), query_lower)
    IN  SelectSeq(Unique(Column(frame, "district")), InQuery)

CompareAccepted(frame, query_lower) ==
    Contains(CompareWord, query_lower) /\ Len(MatchedDists(frame, query_lower)) >= 2

Result(type, region, data, stages) ==
    [type |-> type, region |-> region, data |-> data, stages |-> stages]

search_ingres(frame, meta, query, requested_years, sm, dm, ranking) ==
    LET query_lower == Strip(Lower(query))
        year_filter == YearFilterOf(requested_years)
    IN  IF Accepted(sm) THEN
            LET state_name == Title(Get(sm).choice)
                InState(row) == Lower(row.state) = Lower(state_name)
            IN  Result("state", state_name,
                       ApplyYearFilter(SelectSeq(frame, InState), year_filter),
                       <<"state">>)
        ELSE IF Accepted(Get(dm)) THEN
            LET dist_name == Title(Get(Get(dm)).choice)
                InDistrict(row) == Lower(row.district) = Lower(dist_name)
            IN  Result("district", dist_name,
                       ApplyYearFilter(SelectSeq(frame, InDistrict), year_filter),
                       <<"state", "district">>)
        ELSE IF CompareAccepted(frame, query_lower) THEN
            LET matched_dists == MatchedDists(frame, query_lower)
                IsMatched(row) == row.district \in Range(matched_dists)
            IN  Result("compare", ComparedLabel,
                       ApplyYearFilter(SelectSeq(frame, IsMatched), year_filter),
                       <<"state", "district", "compare">>)
        ELSE
            LET stages == IF Contains(CompareWord, query_lower)
                          THEN <<"state", "district", "compare", "semantic">>
                          ELSE <<"state", "district", "semantic">>
                found == semantic_search(meta, Get(ranking))
            IN  IF found.error THEN Result("KeyError", "", <<>>, stages)
                ELSE IF Len(found.hits) > 0 THEN
                    LET best == found.hits[1]
                        SamePair(row) ==
                            row.district = best.district /\ row.state = best.state
                    IN  Result("semantic", best.district,
                               ApplyYearFilter(SelectSeq(frame, SamePair), year_filter),
                               stages)
                ELSE Result("none", "", <<>>, stages)

(***************************************************************************)
(* The arguments search_ingres is called with.                             *)
(***************************************************************************)
QState == " Bihar "
QDistrict == "gaya"
QBoth == "north goa"
QCompare == "Compare Gaya and Patna"
QCompareLong == "please compare groundwater in gaya and patna"
QCompareOne == "please compare the groundwater levels in gaya"
QCompareState == "compare gaya and patna in bihar"
QOther == "water"

Queries == {QState, QDistrict, QBoth, QCompare, QCompareLong, QCompareOne, QCompareState, QOther}

YearArgs == {None, Some(<<>>), Some(<<2023>>), Some(<<2021, 2022>>)}


(***************************************************************************)
(* extract_years (app.py 41-50).                                           *)
(***************************************************************************)
\* \b at the gap before position i (between s[i-1] and s[i])
WordBoundaryBefore(s, i) ==
    LET left == i > 1 /\ i - 1 <= Len(s) /\ IsWordChar(s[i - 1])
        right == i >= 1 /\ i <= Len(s) /\ IsWordChar(s[i])
    IN  left # right

\* \d{4} at positions i .. i+3
FourDigitsAt(s, i) == i >= 1 /\ i + 3 <= Len(s) /\ \A k \in i..(i + 3) : IsDigit(s[k])

\* \s*: the first position at or after i that holds no whitespace
RECURSIVE SkipSpaces(_, _)
SkipSpaces(s, i) == IF i <= Len(s) /\ IsSpace(s[i]) THEN SkipSpaces(s, i + 1) ELSE i

\* (\b\d{4})\s*-\s*(\d{4}\b) matched at position i: the position of the second
\* group, or 0 when there is no match at i
RangeMatchAt(s, i) ==
    IF ~(WordBoundaryBefore(s, i) /\ FourDigitsAt(s, i)) THEN 0
    ELSE LET hyphen == SkipSpaces(s, i + 4)
         IN  IF ~(hyphen <= Len(s) /\ s[hyphen] = "-") THEN 0
             ELSE LET second == SkipSpaces(s, hyphen + 1)
                  IN  IF FourDigitsAt(s, second) /\ WordBoundaryBefore(s, second + 4)
                      THEN second ELSE 0

\* re.findall scans from the left and resumes after the end of each match;
\* the result is the list of (start, end) group pairs
RECURSIVE FindRanges(_, _)
FindRanges(s, pos) ==
    IF pos > Len(s) THEN <<>>
    ELSE LET second == RangeMatchAt(s, pos)
         IN  IF second = 0 THEN FindRanges(s, pos + 1)
             ELSE <<[start |-> SubSeq(s, pos, pos + 3), end |-> SubSeq(s, second, second + 3)]>>
                  \o FindRanges(s, second + 4)

\* re.findall(r'\b\d{4}\b', query)
RECURSIVE FindSingles(_, _)
FindSingles(s, pos) ==
    IF pos > Len(s) THEN <<>>
    ELSE IF WordBoundaryBefore(s, pos) /\ FourDigitsAt(s, pos) /\ WordBoundaryBefore(s, pos + 4)
         THEN <<SubSeq(s, pos, pos + 3)>> \o FindSingles(s, pos + 4)
         ELSE FindSingles(s, pos + 1)

\* list(range(a, b))
RangeList(a, b) == [k \in 1..(IF b > a THEN b - a ELSE 0) |-> a + k - 1]

\* mutant of ExtendRanges: the end year of a range is left out
RECURSIVE ExtendRangesExclusive(_)
ExtendRangesExclusive(ranges) ==
    IF Len(ranges) = 0 THEN <<>>
    ELSE RangeList(ParseInt(ranges[1].start), ParseInt(ranges[1].end))
         \o ExtendRangesExclusive(Tail(ranges))

\* line 45: years.extend(list(range(int(start), int(end)+1))) for each range
RECURSIVE ExtendRanges(_)
ExtendRanges(ranges) ==
    IF Len(ranges) = 0 THEN <<>>
    ELSE RangeList(ParseInt(ranges[1].start), ParseInt(ranges[1].end) + 1)
         \o ExtendRanges(Tail(ranges))

\* line 48: any(int(y) in range(int(s), int(e)+1) for s, e in ranges)
CoveredByRange(y, ranges) ==
    \E r \in 1..Len(ranges) :
        ParseInt(y) \in Range(RangeList(ParseInt(ranges[r].start), ParseInt(ranges[r].end) + 1))

\* sorted(set(years))
SortedSet(S) ==
    [k \in 1..Cardinality(S) |-> CHOOSE x \in S : Cardinality({y \in S : y < x}) = k - 1]

extract_years(query) ==
    LET ranges == FindRanges(query, 1)
        singles == FindSingles(query, 1)
        NotCovered(y) == ~CoveredByRange(y, ranges)
        kept == SelectSeq(singles, NotCovered)
        years == ExtendRanges(ranges) \o [k \in 1..Len(kept) |-> ParseInt(kept[k])]
    IN  SortedSet(Range(years))

\* the texts extract_years is applied to: up to MaxPieces pieces in a row
Pieces ==
    {<<"2","0","1","5">>, <<"2","0","1","8">>, <<"2">>, <<"-">>, <<" ">>, <<"a">>}

RECURSIVE TextsOf(_)
TextsOf(n) ==
    IF n = 0 THEN {<<>>}
    ELSE LET shorter == TextsOf(n - 1)
         IN  shorter \cup {t \o piece : t \in shorter, piece \in Pieces}

NoCall == call = None /\ result = None

Init ==
    /\ prog = "none"
    /\ pc = "off"
    /\ df = <<>>
    /\ index = None
    /\ META = None
    /\ idxFile = None
    /\ metaFile = None
    /\ pass = 0
    /\ call = None
    /\ result = None
    /\ yquery = <<>>
    /\ yresult = None

(***************************************************************************)
(* build_embeddings.py, module level.                                      *)
(***************************************************************************)
\* lines 17-24: the process starts and reads the CSV as it is now
BuildStart ==
    /\ prog = "none"
    /\ \E c \in Corpora : df' = c
    /\ prog' = "build"
    /\ pc' = "check"
    /\ UNCHANGED <<index, META, idxFile, metaFile, pass, call, result, yquery, yresult>>

\* lines 26-31: both files exist: read them, encode nothing, write nothing
BuildLoad ==
    /\ prog = "build" /\ pc = "check"
    /\ CacheHit
    /\ index' = idxFile
    /\ IF Get(metaFile).complete
       THEN META' = Some(JsonLoad(Get(metaFile))) /\ pc' = "ready"
       ELSE META' = None /\ pc' = "fatal"          \* json.load raises JSONDecodeError
    /\ UNCHANGED <<prog, df, idxFile, metaFile, pass, call, result, yquery, yresult>>

\* lines 32-41: a file is missing: encode the corpus and build the index
BuildEncode ==
    /\ prog = "build" /\ pc = "check"
    /\ ~CacheHit
    /\ pass < MaxPass
    /\ pass' = pass + 1
    /\ index' = Some(BuildIndex(df, pass + 1))
    /\ pc' = "encoded"
    /\ UNCHANGED <<prog, df, META, idxFile, metaFile, call, result, yquery, yresult>>

\* lines 42-43
BuildWriteIndex ==
    /\ prog = "build" /\ pc = "encoded"
    /\ idxFile' = Some(WriteIndex(Get(index), idxFile))
    /\ pc' = "indexSaved"
    /\ UNCHANGED <<prog, df, index, META, metaFile, pass, call, result, yquery, yresult>>

\* lines 45-59: META is built with the int row labels as keys and dumped
BuildWriteMeta ==
    /\ prog = "build" /\ pc = "indexSaved"
    /\ META' = Some(BuildMeta(df, Get(index).pass))
    /\ metaFile' = Some(JsonDump(BuildMeta(df, Get(index).pass)))
    /\ pc' = "ready"
    /\ UNCHANGED <<prog, df, index, idxFile, pass, call, result, yquery, yresult>>

\* the run is interrupted: before the index is written, between the two
\* writes, or inside json.dump (open(.., "w") has created the file, the text
\* is cut short)
BuildInterrupted ==
    /\ prog = "build" /\ pc \in {"encoded", "indexSaved"}
    /\ \/ UNCHANGED metaFile
       \/ /\ pc = "indexSaved"
          /\ metaFile' = Some([pass |-> Get(index).pass, complete |-> FALSE,
                               map |-> JsonDump(BuildMeta(df, Get(index).pass)).map])
    /\ prog' = "none" /\ pc' = "off"
    /\ df' = <<>> /\ index' = None /\ META' = None
    /\ UNCHANGED <<idxFile, pass, call, result, yquery, yresult>>

(***************************************************************************)
(* test_search.py, module level (imported by app.py).                      *)
(***************************************************************************)
\* lines 16-27: read the CSV, the index file and the metadata file; a missing
\* or unreadable file is fatal
QueryStart ==
    /\ prog = "none"
    /\ \E c \in Corpora : df' = c
    /\ prog' = "query"
    /\ IF IsNone(idxFile)
       THEN index' = None /\ META' = None /\ pc' = "fatal"
       ELSE /\ index' = idxFile
            /\ IF IsSome(metaFile) /\ Get(metaFile).complete
               THEN META' = Some(JsonLoad(Get(metaFile))) /\ pc' = "ready"
               ELSE META' = None /\ pc' = "fatal"
    /\ UNCHANGED <<idxFile, metaFile, pass, call, result, yquery, yresult>>

\* the process ends (normally, or after a fatal start)
Exit ==
    /\ prog # "none" /\ pc \in {"ready", "fatal"}
    /\ NoCall
    /\ prog' = "none" /\ pc' = "off"
    /\ df' = <<>> /\ index' = None /\ META' = None
    /\ UNCHANGED <<idxFile, metaFile, pass, call, result, yquery, yresult>>

(***************************************************************************)
(* A query served by a started process.                                    *)
(***************************************************************************)
\* search_ingres(query, requested_years); the district match and the
\* nearest-neighbour order are drawn only when the code reaches those calls
Search ==
    /\ prog # "none" /\ pc = "ready" /\ NoCall
    /\ \E query \in Queries, requested_years \in YearArgs :
        LET query_lower == Strip(Lower(query))
        IN  \E sm \in ExtractOneOutcomes(query_lower, StateChoices(df)),
               dm \in {None} \cup {Some(m) : m \in ExtractOneOutcomes(query_lower, DistrictChoices(df))},
               ranking \in {None} \cup {Some(r) : r \in Rankings(Len(Get(index).vecs))} :
                /\ IsNone(dm) <=> Accepted(sm)
                /\ IsNone(ranking) <=>
                     \/ Accepted(sm)
                     \/ Accepted(Get(dm))
                     \/ CompareAccepted(df, query_lower)
                /\ call' = Some([query |-> query, requested_years |-> requested_years,
                                 sm |-> sm, dm |-> dm, ranking |-> ranking])
                /\ result' = Some(search_ingres(df, Get(META), query, requested_years,
                                                sm, dm, ranking))
    /\ UNCHANGED <<prog, pc, df, index, META, idxFile, metaFile, pass, yquery, yresult>>

\* the caller takes the result (app.py 140-168, build_embeddings.py 136-139)
Return ==
    /\ IsSome(result) /\ Get(result).type # "KeyError"
    /\ call' = None /\ result' = None
    /\ UNCHANGED <<prog, pc, df, index, META, idxFile, metaFile, pass, yquery, yresult>>

\* the KeyError is not caught anywhere: under __main__ the run ends with a
\* traceback; under streamlit the script run ends and the module stays loaded
Uncaught ==
    /\ IsSome(result) /\ Get(result).type = "KeyError"
    /\ call' = None /\ result' = None
    /\ IF prog = "build"
       THEN /\ prog' = "none" /\ pc' = "off"
            /\ df' = <<>> /\ index' = None /\ META' = None
       ELSE UNCHANGED <<prog, pc, df, index, META>>
    /\ UNCHANGED <<idxFile, metaFile, pass, yquery, yresult>>

Next ==
    \/ BuildStart
    \/ BuildLoad
    \/ BuildEncode
    \/ BuildWriteIndex
    \/ BuildWriteMeta
    \/ BuildInterrupted
    \/ QueryStart
    \/ Exit
    \/ Search
    \/ Return
    \/ Uncaught

Spec == Init /\ [][Next]_vars

(***************************************************************************)
(* extract_years applied to one text.                                      *)
(***************************************************************************)
InitYears ==
    /\ prog = "none"
    /\ pc = "off"
    /\ df = <<>>
    /\ index = None
    /\ META = None
    /\ idxFile = None
    /\ metaFile = None
    /\ pass = 0
    /\ call = None
    /\ result = None
    /\ yquery \in TextsOf(MaxPieces)
    /\ yresult = None

ExtractYears ==
    /\ yresult = None
    /\ yresult' = Some(extract_years(yquery))
    /\ UNCHANGED <<prog, pc, df, index, META, idxFile, metaFile, pass, call, result, yquery>>

NextYears == ExtractYears

SpecYears == InitYears /\ [][NextYears]_vars

(***************************************************************************)
(* Properties.                                                             *)
(***************************************************************************)
TheCall == Get(call)
TheResult == Get(result)
Served == IsSome(call) /\ IsSome(result)
QueryLower == Strip(Lower(TheCall.query))
StageTypes == {"state", "district", "compare", "semantic"}

\* the distinct district values of the corpus whose lower-cased name is a
\* literal part of the lower-cased query
NamedDistricts(frame, query_lower) ==
    {d \in Range(Column(frame, "district")) : Contains(Lower(d), query_lower)}

\* C1: whenever the state fuzzy match scores above 70 the result has type
\* "state" and no later stage is attempted: no district match, comparison
\* detection or semantic search is run for that query.
C1_StateStageWins ==
    (Served /\ IsSome(TheCall.sm) /\ Get(TheCall.sm).score > 70) =>
        /\ TheResult.type = "state"
        /\ TheResult.stages = <<"state">>
        /\ IsNone(TheCall.dm)
        /\ IsNone(TheCall.ranking)

\* C1 witness: a state result for a query that contains "compare" and two
\* district names, one of which WRatio is known to score above 70.
C1_Witness ==
    /\ Served
    /\ TheResult.type = "state"
    /\ Contains(CompareWord, QueryLower)
    /\ Cardinality(NamedDistricts(df, QueryLower)) >= 2
    /\ \E d \in NamedDistricts(df, QueryLower) : WRatioFloor(QueryLower, Lower(d)) > 70

\* C2: a row id returned by the index that has no entry in the metadata
\* store is skipped: the semantic stage and search_ingres still return a
\* typed result, never an unhandled error.
C2_MissingKeySkipped ==
    (/\ Served
     /\ IsSome(TheCall.ranking)
     /\ \E slot \in 1..TOP_K :
            /\ Get(TheCall.ranking)[slot] # -1
            /\ MetaKey(Get(TheCall.ranking)[slot]) \notin DOMAIN Get(META).map)
    => TheResult.type \in {"semantic", "none"}

\* C3: a query that contains "compare" and the literal names of at least two
\* distinct districts of the corpus resolves to type "compare", the fixed
\* region label and the union of the rows of the named districts.  Stated
\* for the queries whose district scores are known (a named district whose
\* name is less than 8 times shorter than the query) and which the state
\* stage has let through.
C3_CompareResolved ==
    (/\ Served
     /\ Contains(CompareWord, QueryLower)
     /\ Cardinality(NamedDistricts(df, QueryLower)) >= 2
     /\ \E d \in NamedDistricts(df, QueryLower) : WRatioFloor(QueryLower, Lower(d)) > 70
     /\ ~(IsSome(TheCall.sm) /\ Get(TheCall.sm).score > 70)
     /\ IsNone(TheCall.requested_years))
    =>  /\ TheResult.type = "compare"
        /\ TheResult.region = ComparedLabel
        /\ Range(TheResult.data) =
             {row \in Range(df) : row.district \in NamedDistricts(df, QueryLower)}

C5_YearOf(row) ==
    LET text == Chars(row.assessment_year)
    IN  1000 * DigitVal(text[1]) + 100 * DigitVal(text[2]) + 10 * DigitVal(text[3])
            + DigitVal(text[4])

\* what the same call returns without a year argument
C5_Unfiltered ==
    search_ingres(df, Get(META), TheCall.query, None, TheCall.sm, TheCall.dm, TheCall.ranking)

\* C5: in every accepting stage the year filter changes only the record
\* subset: type and region are those of the unfiltered call, and the data is
\* the unfiltered data restricted to the rows whose leading year is requested
\* (all of it when requested_years is empty or absent).
C5_YearFilterIntersects ==
    (Served /\ TheResult.type \in StageTypes) =>
        LET years == IF IsSome(TheCall.requested_years)
                     THEN Range(Get(TheCall.requested_years)) ELSE {}
            base == C5_Unfiltered
            kept == {i \in 1..Len(base.data) : years = {} \/ C5_YearOf(base.data[i]) \in years}
        IN  /\ TheResult.type = base.type
            /\ TheResult.region = base.region
            /\ Len(TheResult.data) = Cardinality(kept)
            /\ \A k \in 1..Len(TheResult.data) :
                 \E i \in kept : /\ TheResult.data[k] = base.data[i]
                                 /\ Cardinality({j \in kept : j < i}) = k - 1

\* C5 witness: a district result whose requested years miss every row.
C5_Witness ==
    /\ Served
    /\ TheResult.type = "district"
    /\ IsSome(TheCall.requested_years) /\ Len(Get(TheCall.requested_years)) > 0
    /\ Len(TheResult.data) = 0
    /\ Len(C5_Unfiltered.data) > 0

\* the value of the four digits at positions i .. i+3
C6_Number(s, i) ==
    1000 * DigitVal(s[i]) + 100 * DigitVal(s[i + 1]) + 10 * DigitVal(s[i + 2]) + DigitVal(s[i + 3])

\* the standalone four-digit tokens: exactly four digits with no word
\* character on either side
C6_Tokens(s) ==
    {i \in 1..Len(s) :
        /\ i + 3 <= Len(s)
        /\ \A k \in i..(i + 3) : IsDigit(s[k])
        /\ i = 1 \/ ~IsWordChar(s[i - 1])
        /\ i + 4 > Len(s) \/ ~IsWordChar(s[i + 4])}

\* the years of the ranges the left-to-right scan finds
C6_RangeYears(s) ==
    LET ranges == FindRanges(s, 1)
    IN  UNION {ParseInt(ranges[r].start)..ParseInt(ranges[r].end) : r \in 1..Len(ranges)}

\* C6: extract_years returns the strictly ascending list of every year of
\* every range found plus every standalone four-digit token no range covers;
\* digit runs of another length contribute nothing.
C6_ExtractYears ==
    IsSome(yresult) =>
        LET years == Get(yresult)
            tokens == {C6_Number(yquery, i) : i \in C6_Tokens(yquery)}
        IN  /\ \A k \in 1..(Len(years) - 1) : years[k] < years[k + 1]
            /\ Range(years) = C6_RangeYears(yquery) \cup (tokens \ C6_RangeYears(yquery))
            /\ \A y \in Range(years) :
                 \/ y \in tokens
                 \/ \E i, j \in C6_Tokens(yquery) :
                        i < j /\ C6_Number(yquery, i) <= y /\ y <= C6_Number(yquery, j)

\* C6 witness: a range is expanded, and a digit run that is not four digits
\* long stands in the text and is left out.
C6_Witness ==
    /\ IsSome(yresult)
    /\ Get(yresult) = <<2015, 2016, 2017, 2018>>
    /\ \E i \in 1..Len(yquery) :
          /\ IsDigit(yquery[i])
          /\ i = 1 \/ ~IsDigit(yquery[i - 1])
          /\ i = Len(yquery) \/ ~IsDigit(yquery[i + 1])

\* C7: the artifact held in memory once the build operation has finished, by
\* either branch, has exactly one metadata entry per indexed vector, keyed
\* by the string form of the vector's 0-based row index.
C7_ArtifactInvariant ==
    (prog = "build" /\ pc = "ready") =>
        DOMAIN Get(META).map = {StrKey(Str(i)) : i \in 0..(Len(Get(index).vecs) - 1)}

\* C8: whenever both files exist no step encodes the corpus or changes either
\* file, and the build operation loads the two files instead, whatever the
\* corpus is now; so a pass is started only when a file is missing.
C8_SkipAndLoad ==
    [][(IsSome(idxFile) /\ IsSome(metaFile)) =>
          /\ idxFile' = idxFile
          /\ metaFile' = metaFile
          /\ pass' = pass
          /\ (prog = "build" /\ pc = "check" /\ pc' = "ready") =>
                /\ index' = idxFile
                /\ Get(META').map = Get(metaFile).map]_vars

\* C8 witness: the build operation has loaded artifacts built from another
\* corpus than the one it read.
C8_Witness ==
    /\ prog = "build" /\ pc = "ready"
    /\ index = idxFile
    /\ \A k \in DOMAIN Get(META).map : k.kind = "str"
    /\ Get(index).vecs # BuildIndex(df, Get(index).pass).vecs

\* C9: a semantic result is built from the first hit only: region is its
\* district and the data is every corpus row of its (district, state) pair,
\* of every year (those of the requested years when a year filter is given),
\* and no other row.
C9_SemanticWidens ==
    (Served /\ TheResult.type = "semantic") =>
        LET hit == Get(META).map[MetaKey(Get(TheCall.ranking)[1])]
            years == IF IsSome(TheCall.requested_years)
                     THEN Range(Get(TheCall.requested_years)) ELSE {}
        IN  /\ TheResult.region = hit.district
            /\ Range(TheResult.data) =
                 {row \in Range(df) :
                    /\ row.district = hit.district
                    /\ row.state = hit.state
                    /\ years = {} \/ C5_YearOf(row) \in years}

\* C9 witness: the nearest row is one year of a district that has two, it is
\* not the first row of the index, and both years are returned.
C9_Witness ==
    /\ Served /\ TheResult.type = "semantic"
    /\ Get(TheCall.ranking)[1] = 1
    /\ IsNone(TheCall.requested_years)
    /\ Len(TheResult.data) = 2
    /\ TheResult.data[1].assessment_year # TheResult.data[2].assessment_year

\* C10: a started process never holds an index and a metadata store that
\* were produced by different build passes.
C10_SamePass ==
    pc = "ready" => Get(index).pass = Get(META).pass

\* C10 witness: the query module has loaded the files of the second pass,
\* the first having been interrupted.
C10_Witness ==
    /\ prog = "query" /\ pc = "ready"
    /\ Get(index).pass = 2
    /\ Get(META).pass = 2
====
